---- MODULE Spec2Model ----
(***************************************************************************)
(* Model of the email-validation HTTP service.                             *)
(*                                                                         *)
(*   SpecApi        one request at a time through the body parser, the     *)
(*                  /validate and /batch route handlers and errorHandler   *)
(*   SpecLifecycle  startServer, the listening server with its open        *)
(*                  connections, gracefulShutdown and the exit of the      *)
(*                  process                                                *)
(*   FairLifecycle  SpecLifecycle with the fairness of the event loop      *)
(*                                                                         *)
(* JavaScript values are records [t, s, n, items]: t is the type tag, s    *)
(* the characters of a string, n the value of a number (or 0/1 of a        *)
(* boolean), items the elements of an array.  A character is a string of   *)
(* length one.  quality_score is counted in tenths (8 stands for 0.8).     *)
(***************************************************************************)
EXTENDS Integers, Sequences, FiniteSets

VARIABLES req, res, responses,
          pc, initLog, appStack, listen, handle, connections, served,
          closeListeners, handlersRegistered, triggerLog, timers,
          serverClosed, storesReleased, exitCode, exitBy

\* req, res       the request being processed and its response
\* responses      how many responses the request has been sent
\* pc, initLog    the position of startServer and the steps it has completed
\* appStack       the middleware of the application, in app.use order
\* listen         the outcome of app.listen
\* handle         the server's listening handle ("none" before app.listen)
\* connections    open connections, each with a request in flight
\* served         requests completed (counted up to MaxServed)
\* closeListeners callbacks given to server.close and not yet run
\* handlersRegistered  the process.on handlers are in place
\* triggerLog     the argument of each gracefulShutdown call
\* timers         armed force-shutdown timeouts
\* serverClosed, storesReleased  how far the server.close callback got
\* exitCode, exitBy  the status and the call site of process.exit
apiVars == <<req, res, responses>>
lifeVars == <<pc, initLog, appStack, listen, handle, connections, served,
              closeListeners, handlersRegistered, triggerLog, timers,
              serverClosed, storesReleased, exitCode, exitBy>>
vars == <<req, res, responses,
          pc, initLog, appStack, listen, handle, connections, served,
          closeListeners, handlersRegistered, triggerLog, timers,
          serverClosed, storesReleased, exitCode, exitBy>>

(***************************************************************************)
(* Bounds of the model.                                                    *)
(***************************************************************************)
MaxLen == 5
MaxBatch == 3
MaxConn == 2
MaxTriggers == 2
MaxServed == 2

(***************************************************************************)
(* JavaScript values as they arrive in a parsed request body.              *)
(***************************************************************************)
Undefined == [t |-> "undefined", s |-> <<>>, n |-> 0, items |-> <<>>]
Null == [t |-> "null", s |-> <<>>, n |-> 0, items |-> <<>>]
Bool(b) == [t |-> "boolean", s |-> <<>>, n |-> IF b THEN 1 ELSE 0, items |-> <<>>]
Num(k) == [t |-> "number", s |-> <<>>, n |-> k, items |-> <<>>]
Str(chars) == [t |-> "string", s |-> chars, n |-> 0, items |-> <<>>]
Obj == [t |-> "object", s |-> <<>>, n |-> 0, items |-> <<>>]
Arr(elems) == [t |-> "array", s |-> <<>>, n |-> 0, items |-> elems]

Alphabet == {"a", "@", ".", " "}
Whitespace == {" ", "\t", "\n", "\r"}
Digits == <<"0", "1", "2", "3", "4", "5", "6", "7", "8", "9">>

Strings(k) == UNION {[1..i -> Alphabet] : i \in 0..k}

\* !v
Truthy(v) ==
    CASE v.t = "undefined" -> FALSE
      [] v.t = "null" -> FALSE
      [] v.t = "boolean" -> v.n = 1
      [] v.t = "number" -> v.n # 0
      [] v.t = "string" -> Len(v.s) > 0
      [] OTHER -> TRUE

IsArray(v) == v.t = "array"

\* String(v), the conversion RegExp.prototype.test applies to its argument.
RECURSIVE JoinItems(_)
JoinItems(elems) ==
    IF Len(elems) = 0 THEN <<>>
    ELSE LET h == Head(elems)
             hs == CASE h.t = "undefined" -> <<>>
                     [] h.t = "null" -> <<>>
                     [] h.t = "boolean" ->
                          IF h.n = 1 THEN <<"t", "r", "u", "e">>
                          ELSE <<"f", "a", "l", "s", "e">>
                     [] h.t = "number" -> <<Digits[h.n + 1]>>
                     [] h.t = "string" -> h.s
                     [] h.t = "object" ->
                          <<"[", "o", "b", "j", "e", "c", "t", " ",
                            "O", "b", "j", "e", "c", "t", "]">>
                     [] OTHER -> <<>>
         IN IF Len(elems) = 1 THEN hs
            ELSE hs \o <<",">> \o JoinItems(Tail(elems))

ToString(v) ==
    CASE v.t = "undefined" -> <<"u", "n", "d", "e", "f", "i", "n", "e", "d">>
      [] v.t = "null" -> <<"n", "u", "l", "l">>
      [] v.t = "boolean" ->
           IF v.n = 1 THEN <<"t", "r", "u", "e">> ELSE <<"f", "a", "l", "s", "e">>
      [] v.t = "number" -> <<Digits[v.n + 1]>>
      [] v.t = "string" -> v.s
      [] v.t = "object" ->
           <<"[", "o", "b", "j", "e", "c", "t", " ",
             "O", "b", "j", "e", "c", "t", "]">>
      [] OTHER -> JoinItems(v.items)

(***************************************************************************)
(* The regular expression /^[^\s@]+@[^\s@]+\.[^\s@]+$/ as the automaton    *)
(* of its pattern.  States: 0 start, 1 in the local part, 2 after '@',     *)
(* 3 in the domain before the dot, 4 after the dot, 5 in the last part.    *)
(***************************************************************************)
NotSpaceNotAt(c) == c \notin Whitespace /\ c # "@"

\* The same pattern with the dot left out of the class before "\.".
PatternStepNoDotBeforeDot(S, c) ==
    (IF NotSpaceNotAt(c) /\ (0 \in S \/ 1 \in S) THEN {1} ELSE {})
    \cup (IF c = "@" /\ 1 \in S THEN {2} ELSE {})
    \cup (IF NotSpaceNotAt(c) /\ c # "." /\ (2 \in S \/ 3 \in S) THEN {3} ELSE {})
    \cup (IF c = "." /\ 3 \in S THEN {4} ELSE {})
    \cup (IF NotSpaceNotAt(c) /\ (4 \in S \/ 5 \in S) THEN {5} ELSE {})

PatternStep(S, c) ==
    (IF NotSpaceNotAt(c) /\ (0 \in S \/ 1 \in S) THEN {1} ELSE {})
    \cup (IF c = "@" /\ 1 \in S THEN {2} ELSE {})
    \cup (IF NotSpaceNotAt(c) /\ (2 \in S \/ 3 \in S) THEN {3} ELSE {})
    \cup (IF c = "." /\ 3 \in S THEN {4} ELSE {})
    \cup (IF NotSpaceNotAt(c) /\ (4 \in S \/ 5 \in S) THEN {5} ELSE {})

RECURSIVE PatternRun(_, _)
PatternRun(S, chars) ==
    IF Len(chars) = 0 THEN S
    ELSE PatternRun(PatternStep(S, Head(chars)), Tail(chars))

PatternAccepts(chars) == 5 \in PatternRun({0}, chars)

\* The flags of the regular-expression literal: none.
emailRegexFlagsGlobal == {"g"}

emailRegexFlags == {}

\* const emailRegex = /.../ : a fresh RegExp object, lastIndex 0.
emailRegex == [global |-> "g" \in emailRegexFlags, lastIndex |-> 0]

\* emailRegex.test(x): the result and the RegExp object after the call.  A
\* global expression starts at lastIndex and leaves it behind; "^" matches at
\* index 0 only.
RegExpTest(re, x) ==
    LET chars == ToString(x)
        start == IF re.global THEN re.lastIndex ELSE 0
        ok == start = 0 /\ PatternAccepts(chars)
    IN [ok |-> ok,
        re |-> IF re.global
               THEN [re EXCEPT !.lastIndex = IF ok THEN Len(chars) ELSE 0]
               ELSE re]

(***************************************************************************)
(* Responses.                                                              *)
(***************************************************************************)
StatusOk == 200
StatusBadRequest == 400
StatusInternalError == 500
QualityScoreValid == 8
QualityScoreInvalid == 0

NoRes == [kind |-> "none", status |-> 0, error |-> "", message |-> "",
          email |-> Undefined, valid |-> FALSE, quality_score |-> 0,
          syntax_valid |-> FALSE, results |-> <<>>, total |-> 0,
          valid_count |-> 0]

NoReq == [route |-> "none", body |-> Undefined, fault |-> "none",
          err |-> [name |-> "", message |-> "", statusCode |-> 0,
                   status |-> 0]]

ErrorRes(status, error, message) ==
    [NoRes EXCEPT !.kind = "error", !.status = status, !.error = error,
                  !.message = message]

\* if (!email)
ValidateRejectedWhenAbsentOnly(email) == email.t = "undefined"

ValidateRejected(email) == ~Truthy(email)

\* router.post('/validate')
ValidateResponse(email) ==
    IF ValidateRejected(email)
    THEN ErrorRes(StatusBadRequest, "VALIDATION_ERROR", "Email is required")
    ELSE LET isValid == RegExpTest(emailRegex, email).ok
         IN [NoRes EXCEPT !.kind = "ValidationResult",
                          !.status = StatusOk,
                          !.email = email,
                          !.valid = isValid,
                          !.quality_score = IF isValid THEN QualityScoreValid
                                            ELSE QualityScoreInvalid,
                          !.syntax_valid = isValid]

\* if (!emails || !Array.isArray(emails))
BatchRejectedEmptyToo(emails) ==
    ~Truthy(emails) \/ ~IsArray(emails) \/ Len(emails.items) = 0

BatchRejected(emails) == ~Truthy(emails) \/ ~IsArray(emails)

\* emails.map(email => ({...})): three calls of emailRegex.test per entry, on
\* the one RegExp object of the request.
RECURSIVE MapEmails(_, _)
MapEmails(elems, re) ==
    IF Len(elems) = 0 THEN <<>>
    ELSE LET email == Head(elems)
             t1 == RegExpTest(re, email)
             t2 == RegExpTest(t1.re, email)
             t3 == RegExpTest(t2.re, email)
         IN <<[email |-> email,
               valid |-> t1.ok,
               quality_score |-> IF t2.ok THEN QualityScoreValid
                                 ELSE QualityScoreInvalid,
               syntax_valid |-> t3.ok]>>
            \o MapEmails(Tail(elems), t3.re)

\* results.filter(r => r.valid).length
ValidCountAll(results) == Len(results)

ValidCount(results) == Cardinality({i \in 1..Len(results) : results[i].valid})

\* router.post('/batch')
BatchResponse(emails) ==
    IF BatchRejected(emails)
    THEN ErrorRes(StatusBadRequest, "VALIDATION_ERROR", "Emails array is required")
    ELSE LET results == MapEmails(emails.items, emailRegex)
         IN [NoRes EXCEPT !.kind = "BatchResult",
                          !.status = StatusOk,
                          !.results = results,
                          !.total = Len(emails.items),
                          !.valid_count = ValidCount(results)]

\* errorHandler: err.statusCode || err.status || 500, err.name || '...'.
\* In an error record 0 and "" stand for a missing (or falsy) field.
ErrorStatusIgnoringStatus(err) ==
    IF err.statusCode # 0 THEN err.statusCode ELSE StatusInternalError

ErrorStatus(err) ==
    IF err.statusCode # 0 THEN err.statusCode
    ELSE IF err.status # 0 THEN err.status
    ELSE StatusInternalError

ErrorKind(err) == IF err.name # "" THEN err.name ELSE "INTERNAL_SERVER_ERROR"

ErrorMessage(err) ==
    IF err.message # "" THEN err.message ELSE "An unexpected error occurred"

errorHandler(err) ==
    ErrorRes(ErrorStatus(err), ErrorKind(err), ErrorMessage(err))

(***************************************************************************)
(* Request inputs.                                                         *)
(***************************************************************************)
ValidEmail == <<"a", "@", "a", ".", "a">>

EmailValues ==
    {Undefined, Null, Bool(FALSE), Bool(TRUE), Num(0), Num(5), Obj,
     Arr(<<>>), Arr(<<Str(ValidEmail)>>)}
    \cup {Str(chars) : chars \in Strings(MaxLen)}

BatchEntries ==
    {Str(ValidEmail), Str(<<"a", "@", "a">>), Str(<<"@", "a", ".", "a">>),
     Str(<<"a", "@", ".", ".", "a">>), Null, Num(5)}

EmailsValues ==
    {Undefined, Null, Num(0), Str(<<>>), Str(ValidEmail), Obj}
    \cup {Arr(elems) : elems \in UNION {[1..i -> BatchEntries] : i \in 0..MaxBatch}}

\* What express.json({ limit: '10mb' }) passes to next(err).
BodyParserErrors ==
    {[name |-> "SyntaxError", message |-> "Unexpected token",
      statusCode |-> 400, status |-> 400],
     [name |-> "PayloadTooLargeError", message |-> "request entity too large",
      statusCode |-> 413, status |-> 413]}

\* Errors a middleware or handler may pass on: any of its fields may be
\* missing.
RaisedErrors ==
    [name : {"", "Error", "TypeError"}, message : {"", "failed"},
     statusCode : {0, 503}, status : {0, 404}]

(***************************************************************************)
(* One request through the application: body parser, route, 404 fallback,  *)
(* error handler.  Each handler sends its response in the same step.       *)
(***************************************************************************)
StatusNotFound == 404

\* The listening server takes a request when none is being processed.
Idle == req.route = "none" /\ handle = "listening"

\* POST {API_BASE_PATH}/{API_VERSION}/validate
PostValidate ==
    /\ Idle
    /\ \E email \in EmailValues :
           /\ req' = [NoReq EXCEPT !.route = "validate", !.body = email]
           /\ res' = ValidateResponse(email)
           /\ responses' = 1
           /\ UNCHANGED lifeVars

\* POST {API_BASE_PATH}/{API_VERSION}/batch
PostBatch ==
    /\ Idle
    /\ \E emails \in EmailsValues :
           /\ req' = [NoReq EXCEPT !.route = "batch", !.body = emails]
           /\ res' = BatchResponse(emails)
           /\ responses' = 1
           /\ UNCHANGED lifeVars

\* express.json rejects the body (malformed JSON, body over the limit) and
\* the error reaches errorHandler; the route handler never runs.
BodyParseFails ==
    /\ Idle
    /\ \E route \in {"validate", "batch"}, e \in BodyParserErrors :
           /\ req' = [NoReq EXCEPT !.route = route, !.fault = "body", !.err = e]
           /\ res' = errorHandler(e)
           /\ responses' = 1
           /\ UNCHANGED lifeVars

\* Any other error passed to next(err) during request processing.
ErrorRaised ==
    /\ Idle
    /\ \E e \in RaisedErrors :
           /\ req' = [NoReq EXCEPT !.route = "other", !.fault = "raised", !.err = e]
           /\ res' = errorHandler(e)
           /\ responses' = 1
           /\ UNCHANGED lifeVars

\* app.use((req, res) => res.status(404).json(...))
NotFound ==
    /\ Idle
    /\ req' = [NoReq EXCEPT !.route = "unmatched"]
    /\ res' = ErrorRes(StatusNotFound, "NOT_FOUND",
                       "The requested endpoint does not exist")
    /\ responses' = 1
    /\ UNCHANGED lifeVars

\* The response is finished ('finish', logged by requestLogger); the next
\* request starts from nothing, no handler keeps state between requests.
Finish ==
    /\ req.route # "none"
    /\ req' = NoReq
    /\ res' = NoRes
    /\ responses' = 0
    /\ UNCHANGED lifeVars

(***************************************************************************)
(* The process: startServer, the server, gracefulShutdown.                 *)
(***************************************************************************)
ExitSuccess == 0
ExitFailure == 1

\* let redisClient: any = null;  let dbClient: DatabaseClient | null = null;
\* (nothing assigns them)
redisClient == "null"
dbClient == "null"

\* createApp: the middleware stack in the order of the app.use calls.
createAppErrorHandlerBeforeFallback ==
    <<"helmet", "cors", "compression", "json", "urlencoded", "requestLogger",
      "healthRoutes", "validationRoutes", "root", "errorHandler", "notFound">>

createApp ==
    <<"helmet", "cors", "compression", "json", "urlencoded", "requestLogger",
      "healthRoutes", "validationRoutes", "root", "notFound", "errorHandler">>

Exited == exitBy # "none"

\* setTimeout(..., 30000) in gracefulShutdown
ArmTimerMissing(t) == t

ArmTimer(t) == t + 1

\* The server emits 'close' once it has no handle and no open connection.
ServerDrainedIgnoringConnections(h, c) == h = "null"

ServerDrained(h, c) == h = "null" /\ c = 0

\* A callback queued with process.nextTick runs before the event loop takes
\* any other event: the 'error' of a failed listen, the 'close' of a drained
\* server that has a close callback.
NextTickPending ==
    /\ ~Exited
    /\ \/ listen = "errorPending"
       \/ closeListeners > 0 /\ ServerDrained(handle, connections)

EventLoopFree == ~Exited /\ ~NextTickPending

InitializeRedis ==
    /\ pc = "start" /\ ~Exited
    /\ pc' = "redisDone"
    /\ initLog' = Append(initLog, "redis")
    /\ UNCHANGED <<appStack, listen, handle, connections, served,
                   closeListeners, handlersRegistered, triggerLog, timers,
                   serverClosed, storesReleased, exitCode, exitBy>>
    /\ UNCHANGED apiVars

InitializeDatabase ==
    /\ pc = "redisDone" /\ ~Exited
    /\ pc' = "databaseDone"
    /\ initLog' = Append(initLog, "database")
    /\ UNCHANGED <<appStack, listen, handle, connections, served,
                   closeListeners, handlersRegistered, triggerLog, timers,
                   serverClosed, storesReleased, exitCode, exitBy>>
    /\ UNCHANGED apiVars

InitializeDisposableDomains ==
    /\ pc = "databaseDone" /\ ~Exited
    /\ pc' = "disposableDone"
    /\ initLog' = Append(initLog, "disposable")
    /\ UNCHANGED <<appStack, listen, handle, connections, served,
                   closeListeners, handlersRegistered, triggerLog, timers,
                   serverClosed, storesReleased, exitCode, exitBy>>
    /\ UNCHANGED apiVars

CreateApp ==
    /\ pc = "disposableDone" /\ ~Exited
    /\ pc' = "appCreated"
    /\ initLog' = Append(initLog, "createApp")
    /\ appStack' = createApp
    /\ UNCHANGED <<listen, handle, connections, served,
                   closeListeners, handlersRegistered, triggerLog, timers,
                   serverClosed, storesReleased, exitCode, exitBy>>
    /\ UNCHANGED apiVars

\* app.listen binds; the shutdown and uncaught-error handlers are registered
\* in the same turn.
ListenOk ==
    /\ pc = "appCreated" /\ ~Exited
    /\ pc' = "running"
    /\ initLog' = Append(initLog, "listen")
    /\ listen' = "ok"
    /\ handle' = "listening"
    /\ handlersRegistered' = TRUE
    /\ UNCHANGED <<appStack, connections, served, closeListeners, triggerLog,
                   timers, serverClosed, storesReleased, exitCode, exitBy>>
    /\ UNCHANGED apiVars

\* app.listen throws (a port out of range): caught by startServer,
\* process.exit(1).
ListenThrows ==
    /\ pc = "appCreated" /\ ~Exited
    /\ pc' = "failed"
    /\ initLog' = Append(initLog, "listen")
    /\ listen' = "threw"
    /\ exitCode' = ExitFailure
    /\ exitBy' = "startupCatch"
    /\ UNCHANGED <<appStack, handle, connections, served, closeListeners,
                   handlersRegistered, triggerLog, timers, serverClosed,
                   storesReleased>>
    /\ UNCHANGED apiVars

\* app.listen returns, the bind fails (the port is in use): the server has no
\* handle and its 'error' event is queued; startServer goes on to register
\* the handlers.
ListenFailsAsync ==
    /\ pc = "appCreated" /\ ~Exited
    /\ pc' = "running"
    /\ initLog' = Append(initLog, "listen")
    /\ listen' = "errorPending"
    /\ handle' = "null"
    /\ handlersRegistered' = TRUE
    /\ UNCHANGED <<appStack, connections, served, closeListeners, triggerLog,
                   timers, serverClosed, storesReleased, exitCode, exitBy>>
    /\ UNCHANGED apiVars

\* gracefulShutdown(signal): server.close(callback), then the 30 s timeout.
GracefulShutdown(signal) ==
    /\ triggerLog' = Append(triggerLog, signal)
    /\ handle' = "null"
    /\ closeListeners' = closeListeners + 1
    /\ timers' = ArmTimer(timers)
    /\ UNCHANGED <<pc, initLog, appStack, connections, served,
                   handlersRegistered, serverClosed, storesReleased,
                   exitCode, exitBy>>
    /\ UNCHANGED apiVars

\* The 'error' event of the failed listen has no listener: it is thrown and
\* arrives at process.on('uncaughtException').
ListenErrorEvent ==
    /\ listen = "errorPending" /\ ~Exited
    /\ listen' = "errorEmitted"
    /\ GracefulShutdown("uncaughtException")

\* process.on('SIGTERM'), process.on('SIGINT')
Signal ==
    /\ EventLoopFree /\ handlersRegistered
    /\ Len(triggerLog) < MaxTriggers
    /\ \E signal \in {"SIGTERM", "SIGINT"} : GracefulShutdown(signal)
    /\ UNCHANGED listen

\* process.on('uncaughtException'), process.on('unhandledRejection')
UncaughtError ==
    /\ EventLoopFree /\ handlersRegistered
    /\ Len(triggerLog) < MaxTriggers
    /\ \E signal \in {"uncaughtException", "unhandledRejection"} :
           GracefulShutdown(signal)
    /\ UNCHANGED listen

\* A termination signal before the handlers are registered: the default
\* disposition ends the process (status 128 + the signal's number).
SignalBeforeHandlers ==
    /\ ~Exited /\ ~handlersRegistered
    /\ exitCode' = 128 + 15
    /\ exitBy' = "signal"
    /\ UNCHANGED <<pc, initLog, appStack, listen, handle, connections, served,
                   closeListeners, handlersRegistered, triggerLog, timers,
                   serverClosed, storesReleased>>
    /\ UNCHANGED apiVars

\* The listening server accepts a connection, whose request is in flight.
Accept ==
    /\ EventLoopFree
    /\ handle = "listening"
    /\ connections < MaxConn
    /\ connections + served < MaxConn + MaxServed
    /\ connections' = connections + 1
    /\ UNCHANGED <<pc, initLog, appStack, listen, handle, served,
                   closeListeners, handlersRegistered, triggerLog, timers,
                   serverClosed, storesReleased, exitCode, exitBy>>
    /\ UNCHANGED apiVars

\* An in-flight request gets its response and its connection ends.
Complete ==
    /\ EventLoopFree
    /\ connections > 0
    /\ connections' = connections - 1
    /\ served' = IF served < MaxServed THEN served + 1 ELSE served
    /\ UNCHANGED <<pc, initLog, appStack, listen, handle,
                   closeListeners, handlersRegistered, triggerLog, timers,
                   serverClosed, storesReleased, exitCode, exitBy>>
    /\ UNCHANGED apiVars

\* 'close': the callbacks given to server.close run.  Both client handles are
\* null, so neither quit() nor disconnect() is called and nothing can throw:
\* process.exit(0).
ServerCloseEvent ==
    /\ ~Exited
    /\ closeListeners > 0
    /\ ServerDrained(handle, connections)
    /\ serverClosed' = TRUE
    /\ storesReleased' = TRUE
    /\ closeListeners' = 0
    /\ exitCode' = IF redisClient = "null" /\ dbClient = "null"
                   THEN ExitSuccess ELSE ExitFailure
    /\ exitBy' = "graceful"
    /\ UNCHANGED <<pc, initLog, appStack, listen, handle, connections, served,
                   handlersRegistered, triggerLog, timers>>
    /\ UNCHANGED apiVars

\* The 30 s timeout of a gracefulShutdown call fires: process.exit(1).
ForceExit ==
    /\ EventLoopFree
    /\ timers > 0
    /\ exitCode' = ExitFailure
    /\ exitBy' = "timeout"
    /\ UNCHANGED <<pc, initLog, appStack, listen, handle, connections, served,
                   closeListeners, handlersRegistered, triggerLog, timers,
                   serverClosed, storesReleased>>
    /\ UNCHANGED apiVars

(***************************************************************************)
(* Specifications.                                                         *)
(***************************************************************************)
Init ==
    /\ req = NoReq
    /\ res = NoRes
    /\ responses = 0
    /\ pc = "start"
    /\ initLog = <<>>
    /\ appStack = <<>>
    /\ listen = "notCalled"
    /\ handle = "none"
    /\ connections = 0
    /\ served = 0
    /\ closeListeners = 0
    /\ handlersRegistered = FALSE
    /\ triggerLog = <<>>
    /\ timers = 0
    /\ serverClosed = FALSE
    /\ storesReleased = FALSE
    /\ exitCode = 0
    /\ exitBy = "none"

NextApi ==
    \/ PostValidate
    \/ PostBatch
    \/ BodyParseFails
    \/ ErrorRaised
    \/ NotFound
    \/ Finish

NextLifecycle ==
    \/ InitializeRedis
    \/ InitializeDatabase
    \/ InitializeDisposableDomains
    \/ CreateApp
    \/ ListenOk
    \/ ListenThrows
    \/ ListenFailsAsync
    \/ ListenErrorEvent
    \/ Signal
    \/ UncaughtError
    \/ SignalBeforeHandlers
    \/ Accept
    \/ Complete
    \/ ServerCloseEvent
    \/ ForceExit

\* The state startServer leaves behind when every step succeeds.
InitRunning ==
    /\ req = NoReq
    /\ res = NoRes
    /\ responses = 0
    /\ pc = "running"
    /\ initLog = <<"redis", "database", "disposable", "createApp", "listen">>
    /\ appStack = createApp
    /\ listen = "ok"
    /\ handle = "listening"
    /\ connections = 0
    /\ served = 0
    /\ closeListeners = 0
    /\ handlersRegistered = TRUE
    /\ triggerLog = <<>>
    /\ timers = 0
    /\ serverClosed = FALSE
    /\ storesReleased = FALSE
    /\ exitCode = 0
    /\ exitBy = "none"

SpecApi == InitRunning /\ [][NextApi]_vars

SpecLifecycle == Init /\ [][NextLifecycle]_vars

\* The event loop runs every callback that is due: queued ticks, the 'close'
\* of a drained server, an armed timer.
FairLifecycle ==
    /\ SpecLifecycle
    /\ WF_vars(ListenErrorEvent)
    /\ WF_vars(ServerCloseEvent)
    /\ WF_vars(ForceExit)

(***************************************************************************)
(* Properties.                                                             *)
(***************************************************************************)
\* The pattern local-part@domain stated on the positions of a string: an '@'
\* at i and a '.' at j, a non-empty local part before i, at least one
\* character between i and j and after j, and no whitespace and no other '@'.
MatchesPattern(chars) ==
    \E i \in 1..Len(chars), j \in 1..Len(chars) :
        /\ chars[i] = "@"
        /\ chars[j] = "."
        /\ 2 <= i
        /\ i + 2 <= j
        /\ j + 1 <= Len(chars)
        /\ \A k \in 1..Len(chars) :
               k # i => (chars[k] # "@" /\ chars[k] \notin Whitespace)

AtPositions(chars) == {i \in 1..Len(chars) : chars[i] = "@"}

NoWhitespace(chars) == \A k \in 1..Len(chars) : chars[k] \notin Whitespace

\* Exactly one '@', no whitespace, a '.' somewhere after the '@'.
OneAtAndDottedDomain(chars) ==
    /\ Cardinality(AtPositions(chars)) = 1
    /\ NoWhitespace(chars)
    /\ \E i \in AtPositions(chars), j \in 1..Len(chars) :
           i < j /\ chars[j] = "."

\* The same with a non-empty local part and a '.' that is neither the first
\* nor the last character of the domain.
OneAtAndInnerDot(chars) ==
    /\ Cardinality(AtPositions(chars)) = 1
    /\ NoWhitespace(chars)
    /\ \E i \in AtPositions(chars), j \in 1..Len(chars) :
           /\ 2 <= i
           /\ i + 2 <= j
           /\ j + 1 <= Len(chars)
           /\ chars[j] = "."

IsValidateResult == req.route = "validate" /\ res.kind = "ValidationResult"
IsBatchResult == req.route = "batch" /\ res.kind = "BatchResult"

\* C1 as stated: every string with exactly one '@', no whitespace and a '.'
\* in its domain part is reported valid by /validate and by /batch.
C1_AnyDottedDomainIsValid ==
    /\ (IsValidateResult /\ req.body.t = "string"
            /\ OneAtAndDottedDomain(req.body.s)) => res.valid
    /\ IsBatchResult =>
           \A i \in 1..Len(res.results) :
               (res.results[i].email.t = "string"
                   /\ OneAtAndDottedDomain(res.results[i].email.s))
               => res.results[i].valid

\* C1 amended: every string with exactly one '@', no whitespace, a non-empty
\* local part and a '.' in its domain that is neither the first nor the last
\* character of the domain is reported valid by /validate and by /batch.
C1_InnerDotIsValid ==
    /\ (IsValidateResult /\ req.body.t = "string"
            /\ OneAtAndInnerDot(req.body.s)) => res.valid
    /\ IsBatchResult =>
           \A i \in 1..Len(res.results) :
               (res.results[i].email.t = "string"
                   /\ OneAtAndInnerDot(res.results[i].email.s))
               => res.results[i].valid

C1_Witness ==
    /\ IsValidateResult
    /\ req.body.t = "string"
    /\ OneAtAndInnerDot(req.body.s)
    /\ Len(req.body.s) = 5
    /\ req.body.s[3] = "."
    /\ res.valid

\* C2: in every ValidationResult, of /validate and of /batch, quality_score
\* is 0.8 (8 tenths) exactly when valid is true and 0 otherwise, and
\* checks.syntax.valid equals valid.
C2_ScoreAndSyntaxMirrorValid ==
    /\ IsValidateResult =>
           /\ res.quality_score = (IF res.valid THEN 8 ELSE 0)
           /\ res.syntax_valid = res.valid
    /\ IsBatchResult =>
           \A i \in 1..Len(res.results) :
               /\ res.results[i].quality_score
                      = (IF res.results[i].valid THEN 8 ELSE 0)
               /\ res.results[i].syntax_valid = res.results[i].valid

C2_Witness ==
    /\ IsBatchResult
    /\ Len(res.results) = 3
    /\ res.results[1].valid /\ res.results[1].quality_score = 8
    /\ ~res.results[2].valid /\ res.results[2].quality_score = 0
    /\ res.results[3].valid /\ res.results[3].syntax_valid

RequiredEmailResponse ==
    /\ res.kind = "error"
    /\ res.status = 400
    /\ res.error = "VALIDATION_ERROR"
    /\ res.message = "Email is required"

PatternResultResponse ==
    /\ res.kind = "ValidationResult"
    /\ res.status = 200
    /\ res.email = req.body
    /\ res.valid = MatchesPattern(ToString(req.body))

FalsyValues == {Undefined, Null, Bool(FALSE), Num(0), Str(<<>>)}

HandledByErrorHandler == req.fault # "none"

ErrorHandlerResponse ==
    /\ responses = 1
    /\ res.status = (IF req.err.statusCode # 0 THEN req.err.statusCode
                     ELSE IF req.err.status # 0 THEN req.err.status
                     ELSE 500)
    /\ res.error = (IF req.err.name # "" THEN req.err.name
                    ELSE "INTERNAL_SERVER_ERROR")

\* C9 as stated: errorHandler sends exactly one response with the error's
\* status code (statusCode, else status, else 500) and the error's name (else
\* INTERNAL_SERVER_ERROR), and a request to /validate or /batch that fails on
\* the client's input is answered VALIDATION_ERROR with status 400.
C9_OnlyValidationErrorForClientInput ==
    /\ HandledByErrorHandler => ErrorHandlerResponse
    /\ (req.route \in {"validate", "batch"} /\ res.kind = "error") =>
           (res.error = "VALIDATION_ERROR" /\ res.status = 400)

\* C9 amended: errorHandler sends exactly one response with the error's
\* first truthy status code (statusCode, else status, else 500) and the
\* error's name when truthy (else INTERNAL_SERVER_ERROR); VALIDATION_ERROR is
\* the only error kind the /validate and /batch handlers themselves send,
\* always with status 400, while a body the parser rejects is answered by
\* errorHandler with the parser's own status and name.
C9_ErrorHandlerPassesStatusAndName ==
    /\ HandledByErrorHandler => ErrorHandlerResponse
    /\ (req.route \in {"validate", "batch"} /\ req.fault = "none"
            /\ res.kind = "error") =>
           (res.error = "VALIDATION_ERROR" /\ res.status = 400)
    /\ res.error = "VALIDATION_ERROR" =>
           (res.status = 400 /\ req.fault = "none")

C9_Witness ==
    /\ req.fault = "raised"
    /\ req.err.statusCode = 0
    /\ req.err.status = 404
    /\ req.err.name = ""
    /\ res.status = 404
    /\ res.error = "INTERNAL_SERVER_ERROR"

ShutdownTriggered == Len(triggerLog) > 0

\* C6: the server closes only when it no longer listens and no request is in
\* flight, the store handles are released only after the server closed, the
\* process exits with status 0 only after that, and an exit during shutdown
\* before that is the forced exit of the timeout, with a non-zero status.
C6_ShutdownOrder ==
    /\ serverClosed =>
           (ShutdownTriggered /\ handle # "listening" /\ connections = 0)
    /\ storesReleased => serverClosed
    /\ (Exited /\ exitCode = 0) => (exitBy = "graceful" /\ storesReleased)
    /\ (Exited /\ ShutdownTriggered /\ ~storesReleased) =>
           (exitBy = "timeout" /\ exitCode # 0)

C6_Witness ==
    /\ exitBy = "graceful"
    /\ exitCode = 0
    /\ listen = "ok"
    /\ served = 2
    /\ Len(triggerLog) = 2
    /\ triggerLog[1] = "SIGTERM"
    /\ triggerLog[2] = "unhandledRejection"

\* C7: once a termination signal or an uncaught error has started the
\* shutdown, the process eventually exits, and from then on no new connection
\* is accepted.
C7_ShutdownExits ==
    /\ ShutdownTriggered ~> Exited
    /\ [][ShutdownTriggered => connections' <= connections]_vars

C7_Witness ==
    /\ exitBy = "timeout"
    /\ listen = "ok"
    /\ connections = 2
    /\ Len(triggerLog) = 2

StartupFailed == listen \in {"threw", "errorPending", "errorEmitted"}

\* C8: a startup that fails never ends with exit status 0.
C8_FailedStartupExitsNonZero ==
    (StartupFailed /\ Exited) => exitCode # 0

StartupOrder == <<"redis", "database", "disposable", "createApp", "listen">>

InitsDone == \A k \in 1..3 : Len(initLog) >= k /\ initLog[k] = StartupOrder[k]

\* C10: the initializations run in the order cache, datastore,
\* disposable-domain list, the application is assembled after all three with
\* the 404 fallback and then the error handler last, the server listens only
\* after that, and no request is served before.
C10_StartupOrder ==
    /\ Len(initLog) <= Len(StartupOrder)
    /\ \A k \in 1..Len(initLog) : initLog[k] = StartupOrder[k]
    /\ appStack # <<>> => InitsDone
    /\ listen # "notCalled" =>
           /\ Len(appStack) >= 2
           /\ appStack[Len(appStack)] = "errorHandler"
           /\ appStack[Len(appStack) - 1] = "notFound"
           /\ InitsDone
    /\ (handle = "listening" \/ connections > 0 \/ served > 0) =>
           (InitsDone /\ listen = "ok")

C10_Witness ==
    /\ served > 0
    /\ connections > 0
    /\ handle = "listening"

====
